---- MODULE Spec2Model ----
(***************************************************************************)
(* A model of typejuice (packages/typejuice/index.js) and of its vite      *)
(* plugin (packages/vite-plugin-typejuice/index.js).                       *)
(*                                                                         *)
(* Each component of the extractor is a small state machine with its own   *)
(* specification:                                                          *)
(*   SpecName      extractTypeName        (type-name resolver)             *)
(*   SpecTypes     extractNodeTypes       (member type extraction)         *)
(*   SpecComments  extractNodeComments    (comment associator)             *)
(*   SpecWalk      constructor + extractStructure (structure walker)       *)
(*   SpecMarkdown  toMarkdown + addParamsToMarkdown (renderer)             *)
(*   SpecPlugin    VitePluginTypeJuice.transform                           *)
(*                                                                         *)
(* JavaScript strings are TLA+ strings (concatenation is \o).  Where the   *)
(* code indexes into a string or matches a regular expression against it,  *)
(* the string is a sequence of one-character strings instead.              *)
(***************************************************************************)
EXTENDS Integers, Sequences, FiniteSets, TLC

VARIABLES
  \* extractTypeName
  segments, typeName, nameResult, namePc,
  \* extractNodeTypes
  annotation, node, nodeTypes, typesErr, typesPc,
  \* extractNodeComments
  sourceLines, lineIdx, comments, seenComment, lineBreak, scanPc,
  \* constructor / extractStructure
  sourceNode, stack, structure, walkErr, walkPc,
  \* toMarkdown
  mdStructure, mdIdx, markdown, mdPc,
  \* plugin transform
  id, mdSource, hasGlobalFs, code, plIdx, plResult, plPc

nameVars    == <<segments, typeName, nameResult, namePc>>
typesVars   == <<annotation, node, nodeTypes, typesErr, typesPc>>
commentVars == <<sourceLines, lineIdx, comments, seenComment, lineBreak, scanPc>>
walkVars    == <<sourceNode, stack, structure, walkErr, walkPc>>
mdVars      == <<mdStructure, mdIdx, markdown, mdPc>>
pluginVars  == <<id, mdSource, hasGlobalFs, code, plIdx, plResult, plPc>>
vars == <<nameVars, typesVars, commentVars, walkVars, mdVars, pluginVars>>

\* A component that is not part of the specification being checked is idle.
NameIdle ==
  segments = <<>> /\ typeName = <<>> /\ nameResult = "" /\ namePc = "idle"
TypesIdle ==
  /\ annotation = <<>> /\ node = <<>> /\ nodeTypes = <<>>
  /\ typesErr = "none" /\ typesPc = "idle"
CommentsIdle ==
  /\ sourceLines = <<>> /\ lineIdx = 0 /\ comments = <<>>
  /\ seenComment = FALSE /\ lineBreak = FALSE /\ scanPc = "idle"
WalkIdle ==
  /\ sourceNode = <<>> /\ stack = <<>>
  /\ structure = <<>> /\ walkErr = "none" /\ walkPc = "idle"
MarkdownIdle ==
  mdStructure = <<>> /\ mdIdx = 0 /\ markdown = "" /\ mdPc = "idle"
PluginIdle ==
  /\ id = <<>> /\ mdSource = <<>> /\ hasGlobalFs = FALSE /\ code = <<>>
  /\ plIdx = 0 /\ plResult = <<>> /\ plPc = "idle"

(***************************************************************************)
(* Generic helpers.                                                        *)
(***************************************************************************)
\* All sequences over S of length lo..hi.
SeqsOf(S, lo, hi) == UNION {[1..n -> S] : n \in lo..hi}

\* x has the (own, truthy) property f: the code's `if (x.f)`.
Has(x, f) == f \in DOMAIN x

\* Array.prototype.join on an array of strings.
RECURSIVE JoinStrings(_, _)
JoinStrings(strs, sep) ==
  IF strs = <<>> THEN ""
  ELSE IF Len(strs) = 1 THEN strs[1]
  ELSE strs[1] \o sep \o JoinStrings(Tail(strs), sep)

(***************************************************************************)
(* 4.1 Type-name resolver: extractTypeName.                                *)
(*                                                                         *)
(* An entity name is what the parser hands over: an Identifier             *)
(* [escapedText |-> s], or a QualifiedName [left |-> entity name,          *)
(* right |-> Identifier].  The parser nests qualified names to the left:   *)
(* a.b.c is ((a.b).c).                                                     *)
(***************************************************************************)
MaxSegs == 4

Identifiers == {"ns", "Foo", "T"}

Identifier(s) == [escapedText |-> s]

RECURSIVE EntityName(_)
EntityName(segs) ==
  IF Len(segs) = 1 THEN Identifier(segs[1])
  ELSE [left  |-> EntityName(SubSeq(segs, 1, Len(segs) - 1)),
        right |-> Identifier(segs[Len(segs)])]

\* Faulty variant: the qualifier's last segment is resolved before its prefix.
RECURSIVE extractTypeNameSwapped(_)
extractTypeNameSwapped(tn) ==
  IF Has(tn, "escapedText") THEN tn.escapedText
  ELSE IF Has(tn, "left") THEN
    LET result1 ==
          IF Has(tn.left, "left")
          THEN extractTypeNameSwapped(tn.left.right) \o "."
                 \o extractTypeNameSwapped(tn.left.left)
          ELSE tn.left.escapedText
        result2 == IF result1 # "" THEN result1 \o "." ELSE result1
    IN  result2 \o tn.right.escapedText
  ELSE ""

RECURSIVE extractTypeName(_)
extractTypeName(tn) ==
  IF Has(tn, "escapedText") THEN tn.escapedText
  ELSE
    LET result0 == ""
    IN  IF Has(tn, "left") THEN
          LET result1 ==
                IF Has(tn.left, "left")
                THEN (result0 \o extractTypeName(tn.left.left))
                       \o "." \o extractTypeName(tn.left.right)
                ELSE (IF result0 # "" THEN result0 \o "." ELSE result0)
                       \o tn.left.escapedText
              result2 == IF result1 # "" THEN result1 \o "." ELSE result1
          IN  result2 \o tn.right.escapedText
        ELSE result0

InitName ==
  /\ segments \in SeqsOf(Identifiers, 1, MaxSegs)
  /\ typeName = EntityName(segments)
  /\ nameResult = ""
  /\ namePc = "call"
  /\ TypesIdle /\ CommentsIdle /\ WalkIdle /\ MarkdownIdle /\ PluginIdle

ExtractTypeName ==
  /\ namePc = "call"
  /\ nameResult' = extractTypeName(typeName)
  /\ namePc' = "done"
  /\ UNCHANGED <<segments, typeName>>
  /\ UNCHANGED <<typesVars, commentVars, walkVars, mdVars, pluginVars>>

NextName == ExtractTypeName

SpecName == InitName /\ [][NextName]_vars

\* C6: for a name of n segments, 1 <= n <= MaxSegs, given as an identifier or
\* as a left-nested qualified name, extractTypeName returns the segments once
\* each, left to right, joined by single dots.
C6_DottedName ==
  namePc = "done" => nameResult = JoinStrings(segments, ".")

C6_Witness ==
  /\ namePc = "done" /\ Len(segments) = 4
  /\ segments[1] # segments[2] /\ segments[3] # segments[4]
  /\ nameResult = JoinStrings(segments, ".")

(***************************************************************************)
(* 4.4 Member types: extractNodeTypes.                                     *)
(*                                                                         *)
(* JavaScript values that the result mixes are kept apart by their shape:  *)
(* a string is [str |-> s], undefined is [undef |-> TRUE] and an array is  *)
(* [arr |-> <<...>>].                                                      *)
(***************************************************************************)
MaxUnion == 3

Str(s) == [str |-> s]
Undefined == [undef |-> TRUE]
Arr(xs) == [arr |-> xs]

keywordMap ==
  [k \in {"StringKeyword", "NumberKeyword", "BooleanKeyword", "NullKeyword",
          "UndefinedKeyword", "ObjectKeyword"} |->
     CASE k = "StringKeyword"    -> "string"
       [] k = "NumberKeyword"    -> "number"
       [] k = "BooleanKeyword"   -> "boolean"
       [] k = "NullKeyword"      -> "null"
       [] k = "UndefinedKeyword" -> "undefined"
       [] k = "ObjectKeyword"    -> "object"]

\* keywordMap[ts.SyntaxKind[kind]]: a missing key reads as undefined.
KeywordLookup(kind) ==
  IF kind \in DOMAIN keywordMap THEN Str(keywordMap[kind]) ELSE Undefined

\* The spelled member types of an annotation, each as its dotted segments.
TypeSpellings ==
  {<<"string">>, <<"number">>, <<"null">>, <<"void">>, <<"Foo">>, <<"ns", "Foo">>}

\* Spellings that the identifier path or the keyword table resolves.
Resolvable == TypeSpellings \ {<<"void">>}

\* The parser's type node for one spelled member type.
TypeNode(spelling) ==
  CASE spelling = <<"string">> -> [kind |-> "StringKeyword"]
    [] spelling = <<"number">> -> [kind |-> "NumberKeyword"]
    [] spelling = <<"void">>   -> [kind |-> "VoidKeyword"]
    [] spelling = <<"null">>   -> [kind |-> "LiteralType",
                                   literal |-> [kind |-> "NullKeyword"]]
    [] OTHER -> [kind |-> "TypeReference", typeName |-> EntityName(spelling)]

\* The parser's node for a declaration of the given kind whose annotation is
\* spelled ann: no annotation, one type, or a union of two or more.
DeclNode(kind, ann) ==
  IF ann = <<>> THEN [kind |-> kind]
  ELSE IF Len(ann) = 1 THEN [kind |-> kind, type |-> TypeNode(ann[1])]
  ELSE [kind |-> kind,
        type |-> [kind  |-> "UnionType",
                  types |-> [i \in 1..Len(ann) |-> TypeNode(ann[i])]]]

\* One type node resolved to its name: lines 137-144 and 148-155.
ResolveType(type) ==
  IF Has(type, "typeName") THEN Str(extractTypeName(type.typeName))
  ELSE IF Has(type, "literal") THEN KeywordLookup(type.literal.kind)
  ELSE KeywordLookup(type.kind)

\* Reading node.type.types of a node without an annotation is a TypeError.
extractNodeTypes(n) ==
  IF ~Has(n, "type") THEN [err |-> "TypeError", value |-> <<>>]
  ELSE IF Has(n.type, "types")
  THEN [err   |-> "none",
        value |-> [i \in 1..Len(n.type.types) |-> ResolveType(n.type.types[i])]]
  ELSE [err |-> "none", value |-> <<Arr(<<ResolveType(n.type)>>)>>]

TypedKinds == {"Parameter", "PropertySignature", "FunctionDeclaration"}

InitTypes ==
  /\ annotation \in SeqsOf(TypeSpellings, 0, MaxUnion)
  /\ \E kind \in TypedKinds : node = DeclNode(kind, annotation)
  /\ nodeTypes = <<>>
  /\ typesErr = "none"
  /\ typesPc = "call"
  /\ NameIdle /\ CommentsIdle /\ WalkIdle /\ MarkdownIdle /\ PluginIdle

ExtractNodeTypes ==
  /\ typesPc = "call"
  /\ LET r == extractNodeTypes(node)
     IN  /\ nodeTypes' = r.value
         /\ typesErr' = r.err
  /\ typesPc' = "done"
  /\ UNCHANGED <<annotation, node>>
  /\ UNCHANGED <<nameVars, commentVars, walkVars, mdVars, pluginVars>>

NextTypes == ExtractNodeTypes

SpecTypes == InitTypes /\ [][NextTypes]_vars

\* The annotation's members all resolve to a name.
AllResolvable == \A i \in 1..Len(annotation) : annotation[i] \in Resolvable

\* [[T1], ..., [Tn]] for the spelled members T1..Tn.
NestedNames ==
  [i \in 1..Len(annotation) |-> Arr(<<Str(JoinStrings(annotation[i], "."))>>)]

\* C1: the returned types value is a sequence of alternatives, each itself a
\* sequence of names: a union T1 | ... | Tn yields [[T1], ..., [Tn]] in
\* declaration order and a single annotation T yields [[T]].
C1_NestedAlternatives ==
  (typesPc = "done" /\ annotation # <<>> /\ AllResolvable)
    => nodeTypes = NestedNames

\* C8: extractNodeTypes never raises and returns a non-empty sequence; an
\* unresolvable type yields an undefined name in its alternative.
C8_NeverRaisesNonEmpty ==
  typesPc = "done" => (typesErr = "none" /\ Len(nodeTypes) >= 1)

(***************************************************************************)
(* 4.2 Comment associator: extractNodeComments.                            *)
(*                                                                         *)
(* sourceLines is the node's span [pos, end) of the source, split into     *)
(* lines; a line is a sequence of characters.  The loop runs one line per  *)
(* step.  The value the function returns (the paragraphs joined and        *)
(* word-wrapped) is dropped by both callers, which keep the comments array *)
(* that the loop fills.                                                    *)
(***************************************************************************)
MaxLines == 5

IsSpace(c) == c \in {" ", "\t"}

RECURSIVE TrimLeft(_)
TrimLeft(cs) ==
  IF cs # <<>> /\ IsSpace(cs[1]) THEN TrimLeft(Tail(cs)) ELSE cs

RECURSIVE TrimRight(_)
TrimRight(cs) ==
  IF cs # <<>> /\ IsSpace(cs[Len(cs)])
  THEN TrimRight(SubSeq(cs, 1, Len(cs) - 1))
  ELSE cs

\* String.prototype.trim
Trim(cs) == TrimRight(TrimLeft(cs))

\* line.match(/^\s*\/\/(.+?)$/): <<>> when there is no match, else <<group 1>>.
CommentMatch(line) ==
  LET rest == TrimLeft(line)
  IN  IF Len(rest) >= 3 /\ rest[1] = "/" /\ rest[2] = "/"
      THEN <<SubSeq(rest, 3, Len(rest))>>
      ELSE <<>>

\* line.match(/^\s*$/)
BlankMatch(line) == TrimLeft(line) = <<>>

Lines ==
  { <<>>,
    <<" ", " ">>,
    <<"/", "/", " ", "a">>,
    <<" ", "/", "/", "b", " ">>,
    <<"/", "/">>,
    <<"x", ":", "T">>,
    <<"y", " ", "/", "/", "c">> }

InitComments ==
  /\ sourceLines \in SeqsOf(Lines, 1, MaxLines)
  /\ lineIdx = 0
  /\ comments = <<>>
  /\ seenComment = FALSE
  /\ lineBreak = FALSE
  /\ scanPc = "scan"
  /\ NameIdle /\ TypesIdle /\ WalkIdle /\ MarkdownIdle /\ PluginIdle

\* The line the loop looks at next.
CurrentLine == sourceLines[lineIdx + 1]

Scanning == scanPc = "scan" /\ lineIdx < Len(sourceLines)

\* Faulty variant: a comment line always starts a new paragraph.
CommentLineNoMerge ==
  /\ Scanning
  /\ CommentMatch(CurrentLine) # <<>>
  /\ seenComment' = TRUE
  /\ comments' = Append(comments, Trim(CommentMatch(CurrentLine)[1]))
  /\ lineBreak' = FALSE
  /\ lineIdx' = lineIdx + 1
  /\ UNCHANGED <<sourceLines, scanPc>>
  /\ UNCHANGED <<nameVars, typesVars, walkVars, mdVars, pluginVars>>

\* Lines 191-198.
CommentLine ==
  /\ Scanning
  /\ CommentMatch(CurrentLine) # <<>>
  /\ seenComment' = TRUE
  /\ LET text == Trim(CommentMatch(CurrentLine)[1])
     IN  IF ~lineBreak /\ Len(comments) > 0
         THEN comments' = [comments EXCEPT ![Len(comments)] = @ \o <<" ">> \o text]
         ELSE comments' = Append(comments, text)
  /\ lineBreak' = FALSE
  /\ lineIdx' = lineIdx + 1
  /\ UNCHANGED <<sourceLines, scanPc>>
  /\ UNCHANGED <<nameVars, typesVars, walkVars, mdVars, pluginVars>>

\* Lines 199-200.
BlankLine ==
  /\ Scanning
  /\ CommentMatch(CurrentLine) = <<>>
  /\ BlankMatch(CurrentLine)
  /\ lineBreak' = TRUE
  /\ lineIdx' = lineIdx + 1
  /\ UNCHANGED <<sourceLines, comments, seenComment, scanPc>>
  /\ UNCHANGED <<nameVars, typesVars, walkVars, mdVars, pluginVars>>

\* Lines 201-202: code right after a comment ends the scan.
CodeLineBreak ==
  /\ Scanning
  /\ CommentMatch(CurrentLine) = <<>>
  /\ ~BlankMatch(CurrentLine)
  /\ ~lineBreak /\ seenComment
  /\ scanPc' = "done"
  /\ UNCHANGED <<sourceLines, lineIdx, comments, seenComment, lineBreak>>
  /\ UNCHANGED <<nameVars, typesVars, walkVars, mdVars, pluginVars>>

\* Line 201, condition false: the loop goes on to the next line.
CodeLineSkip ==
  /\ Scanning
  /\ CommentMatch(CurrentLine) = <<>>
  /\ ~BlankMatch(CurrentLine)
  /\ ~(~lineBreak /\ seenComment)
  /\ lineIdx' = lineIdx + 1
  /\ UNCHANGED <<sourceLines, comments, seenComment, lineBreak, scanPc>>
  /\ UNCHANGED <<nameVars, typesVars, walkVars, mdVars, pluginVars>>

\* Line 189: the lines are exhausted.
ScanEnd ==
  /\ scanPc = "scan"
  /\ lineIdx = Len(sourceLines)
  /\ scanPc' = "done"
  /\ UNCHANGED <<sourceLines, lineIdx, comments, seenComment, lineBreak>>
  /\ UNCHANGED <<nameVars, typesVars, walkVars, mdVars, pluginVars>>

NextComments ==
  \/ CommentLine
  \/ BlankLine
  \/ CodeLineBreak
  \/ CodeLineSkip
  \/ ScanEnd

SpecComments == InitComments /\ [][NextComments]_vars

\* What a line of the span is, read off the text.
LineKind(i) ==
  IF CommentMatch(sourceLines[i]) # <<>> THEN "comment"
  ELSE IF BlankMatch(sourceLines[i]) THEN "blank"
  ELSE "code"

CommentText(i) == Trim(CommentMatch(sourceLines[i])[1])

\* The last comment line before line i (0: none).
LastCommentBefore(i) ==
  LET S == {j \in 1..(i - 1) : LineKind(j) = "comment"}
  IN  IF S = {} THEN 0 ELSE CHOOSE j \in S : \A k \in S : k <= j

\* A blank line lies between the last comment before line i and line i.
BlankSinceComment(i) ==
  \E k \in (LastCommentBefore(i) + 1)..(i - 1) : LineKind(k) = "blank"

\* C4: a comment line that follows the previous comment line with no blank
\* line in between is appended, space-joined, to the last paragraph; a comment
\* line that is the first one or follows a blank line seen since the last
\* comment starts a new paragraph; a code line reached when a comment has been
\* seen and no blank line since stops the scan, and no later line changes the
\* paragraphs.
C4_ParagraphPolicy ==
  [][ /\ Scanning =>
        LET i == lineIdx + 1
            merged == LastCommentBefore(i) > 0 /\ ~BlankSinceComment(i)
        IN  /\ (LineKind(i) = "comment" /\ merged) =>
               (/\ Len(comments) > 0
                /\ comments' = [comments EXCEPT ![Len(comments)] =
                                  @ \o <<" ">> \o CommentText(i)])
            /\ (LineKind(i) = "comment" /\ ~merged) =>
               comments' = Append(comments, CommentText(i))
            /\ (LineKind(i) = "code" /\ merged) =>
               (scanPc' = "done" /\ comments' = comments)
      /\ scanPc = "done" => comments' = comments
    ]_vars

\* Both paragraph cases and the stop have happened in one scan: two merged
\* lines, a paragraph after a blank line, and the scan stopped by code with
\* a line left unread.
C4_Witness ==
  /\ scanPc = "done"
  /\ lineIdx < Len(sourceLines)
  /\ LineKind(lineIdx + 1) = "code"
  /\ Len(comments) = 2
  /\ \E i \in 2..lineIdx : LineKind(i) = "comment" /\ LineKind(i - 1) = "comment"
  /\ \E i \in 2..lineIdx : LineKind(i) = "comment" /\ LineKind(i - 1) = "blank"

\* A line of code proper: not blank, and not starting with the comment marker.
PlainCode(i) ==
  LET rest == TrimLeft(sourceLines[i])
  IN  rest # <<>> /\ ~(Len(rest) >= 2 /\ rest[1] = "/" /\ rest[2] = "/")

\* C5: no comment line that occurs after a code (non-comment, non-blank) line
\* of the span contributes to the node's comments.
C5_NoCommentAfterCode ==
  [][ (Scanning /\ LineKind(lineIdx + 1) = "comment"
         /\ \E j \in 1..lineIdx : PlainCode(j))
        => comments' = comments ]_vars

(***************************************************************************)
(* 4.5 Structure walker: the constructor and extractStructure.             *)
(*                                                                         *)
(* The recursion is an explicit stack of frames, the innermost call last.  *)
(* A frame is [node, pc, idx, sourceMeta]: the node the call was made on,  *)
(* "enter" before the kind check and "loop" after it, the number of        *)
(* statements already handled, and the call's sourceMeta array.            *)
(* structure is <<>> while this.structure is unassigned and <<entries>>    *)
(* once the constructor has assigned it.                                   *)
(* The declarations of the walker's alphabet have no members; a function   *)
(* declaration has a return annotation or none.                            *)
(***************************************************************************)
MaxNodes == 4

InterfaceDeclaration(nm) ==
  [kind |-> "InterfaceDeclaration", name |-> Identifier(nm)]
ClassDeclaration(nm) ==
  [kind |-> "ClassDeclaration", name |-> Identifier(nm)]
FunctionDeclaration(nm, ann) ==
  [n \in {"name"} |-> Identifier(nm)] @@ DeclNode("FunctionDeclaration", ann)
VariableStatement == [kind |-> "VariableStatement"]
ModuleBlock(stmts) == [kind |-> "ModuleBlock", statements |-> stmts]
\* namespace nm { ... }
ModuleDeclaration(nm, stmts) ==
  [kind |-> "ModuleDeclaration", name |-> Identifier(nm),
   body |-> ModuleBlock(stmts)]
\* namespace nm.inner { }: the body of the outer declaration is the inner one.
DottedModuleDeclaration(nm) ==
  [kind |-> "ModuleDeclaration", name |-> Identifier(nm),
   body |-> ModuleDeclaration("inner", <<>>)]
\* declare module nm; has no body.
ShorthandModuleDeclaration(nm) ==
  [kind |-> "ModuleDeclaration", name |-> Identifier(nm)]
SourceFile(stmts) == [kind |-> "SourceFile", statements |-> stmts]

\* Statements of one node, named nm.
LeafStatements(nm) ==
  { InterfaceDeclaration(nm), ClassDeclaration(nm),
    FunctionDeclaration(nm, <<<<"string">>>>), FunctionDeclaration(nm, <<>>),
    VariableStatement,
    DottedModuleDeclaration(nm), ShorthandModuleDeclaration(nm) }

\* Statement lists of at most n nodes in all; the k-th statement of the list
\* whose container is named prefix is named prefix followed by k.
RECURSIVE StatementLists(_, _, _)
StatementLists(n, prefix, k) ==
  {<<>>} \cup
  UNION { LET nm == prefix \o ToString(k)
              first == IF m = 1 THEN LeafStatements(nm)
                       ELSE { ModuleDeclaration(nm, body) :
                                body \in StatementLists(m - 1, nm, 1) }
          IN  { <<s>> \o rest : s \in first,
                                rest \in StatementLists(n - m, prefix, k + 1) }
        : m \in 1..n }

extractInterface(iNode) == [name |-> iNode.name.escapedText, props |-> <<>>]

extractClass(classNode) == [name |-> classNode.name.escapedText, props |-> <<>>]

\* err is what extractNodeTypes raised on the function node, if anything.
extractFunction(functionNode) ==
  LET r == extractNodeTypes(functionNode)
  IN  [err   |-> r.err,
       value |-> [name        |-> functionNode.name.escapedText,
                  params      |-> <<>>,
                  returnTypes |-> r.value]]

Frame(n) == [node |-> n, pc |-> "enter", idx |-> 0, sourceMeta |-> <<>>]

Top == stack[Len(stack)]

\* The stack with its innermost frame replaced.
WithTop(f) == [stack EXCEPT ![Len(stack)] = f]

\* The innermost call is in its loop with a statement left.
InLoop ==
  /\ walkPc = "walking"
  /\ Top.pc = "loop"
  /\ Top.idx < Len(Top.node.statements)

Statement == Top.node.statements[Top.idx + 1]

\* sourceMeta.push(entry); break
PushEntry(entry) ==
  WithTop([Top EXCEPT !.sourceMeta = Append(@, entry), !.idx = @ + 1])

InitWalk ==
  /\ sourceNode \in {SourceFile(stmts) : stmts \in StatementLists(MaxNodes, "D", 1)}
  /\ stack = <<>>
  /\ structure = <<>>
  /\ walkErr = "none"
  /\ walkPc = "new"
  /\ NameIdle /\ TypesIdle /\ CommentsIdle /\ MarkdownIdle /\ PluginIdle

OtherIdle == UNCHANGED <<nameVars, typesVars, commentVars, mdVars, pluginVars>>

\* Lines 20-28: the constructor calls extractStructure on the source file.
Construct ==
  /\ walkPc = "new"
  /\ stack' = <<Frame(sourceNode)>>
  /\ walkPc' = "walking"
  /\ UNCHANGED <<sourceNode, structure, walkErr>>
  /\ OtherIdle

\* An error leaves every active call and the constructor: nothing catches it.
Raise(e) ==
  /\ walkErr' = e
  /\ stack' = <<>>
  /\ walkPc' = "thrown"
  /\ UNCHANGED <<sourceNode, structure>>
  /\ OtherIdle

IsContainer(n) == Has(n, "kind") /\ n.kind \in {"SourceFile", "ModuleBlock"}

\* Lines 32-37, the kind check passes.
KindCheckPass ==
  /\ walkPc = "walking"
  /\ Top.pc = "enter"
  /\ IsContainer(Top.node)
  /\ stack' = WithTop([Top EXCEPT !.pc = "loop", !.sourceMeta = <<>>])
  /\ UNCHANGED <<sourceNode, structure, walkErr, walkPc>>
  /\ OtherIdle

\* Faulty variant: the failed call is abandoned and its caller goes on.
KindCheckSwallowed ==
  /\ walkPc = "walking"
  /\ Top.pc = "enter"
  /\ ~IsContainer(Top.node)
  /\ Len(stack) > 1
  /\ stack' = [i \in 1..(Len(stack) - 1) |->
                 IF i = Len(stack) - 1
                 THEN [stack[i] EXCEPT !.idx = @ + 1]
                 ELSE stack[i]]
  /\ UNCHANGED <<sourceNode, structure, walkErr, walkPc>>
  /\ OtherIdle

\* Lines 32-34: the node is no container (reading the kind of an absent body
\* is a TypeError of its own).
KindCheckThrow ==
  /\ walkPc = "walking"
  /\ Top.pc = "enter"
  /\ ~IsContainer(Top.node)
  /\ Raise(IF Has(Top.node, "kind") THEN "Error" ELSE "TypeError")

\* Lines 40-42.
InterfaceCase ==
  /\ InLoop
  /\ Statement.kind = "InterfaceDeclaration"
  /\ stack' = PushEntry(<<"Interface", extractInterface(Statement)>>)
  /\ UNCHANGED <<sourceNode, structure, walkErr, walkPc>>
  /\ OtherIdle

\* Lines 43-45.
ClassCase ==
  /\ InLoop
  /\ Statement.kind = "ClassDeclaration"
  /\ stack' = PushEntry(<<"Class", extractClass(Statement)>>)
  /\ UNCHANGED <<sourceNode, structure, walkErr, walkPc>>
  /\ OtherIdle

\* Lines 46-48.
FunctionCase ==
  /\ InLoop
  /\ Statement.kind = "FunctionDeclaration"
  /\ extractFunction(Statement).err = "none"
  /\ stack' = PushEntry(<<"Function", extractFunction(Statement).value>>)
  /\ UNCHANGED <<sourceNode, structure, walkErr, walkPc>>
  /\ OtherIdle

\* Lines 46-47 when extractFunction raises.
FunctionCaseThrow ==
  /\ InLoop
  /\ Statement.kind = "FunctionDeclaration"
  /\ extractFunction(Statement).err # "none"
  /\ Raise(extractFunction(Statement).err)

\* Line 50, the call: extractStructure(statement.body) with no sourceMeta.
ModuleCaseCall ==
  /\ InLoop
  /\ Statement.kind = "ModuleDeclaration"
  /\ stack' = Append(stack, Frame(IF Has(Statement, "body")
                                  THEN Statement.body ELSE Undefined))
  /\ UNCHANGED <<sourceNode, structure, walkErr, walkPc>>
  /\ OtherIdle

\* Lines 52-55.
DefaultCase ==
  /\ InLoop
  /\ Statement.kind \notin {"InterfaceDeclaration", "ClassDeclaration",
                            "FunctionDeclaration", "ModuleDeclaration"}
  /\ stack' = WithTop([Top EXCEPT !.idx = @ + 1])
  /\ UNCHANGED <<sourceNode, structure, walkErr, walkPc>>
  /\ OtherIdle

\* The innermost call has handled all its statements: line 57.
AtReturn ==
  /\ walkPc = "walking"
  /\ Top.pc = "loop"
  /\ Top.idx = Len(Top.node.statements)

\* The stack after the innermost call returned: its frame is gone and its
\* caller, whose sourceMeta is now newMeta, moves on to the next statement.
CallerResumes(newMeta) ==
  [i \in 1..(Len(stack) - 1) |->
     IF i = Len(stack) - 1
     THEN [stack[i] EXCEPT !.sourceMeta = newMeta, !.idx = @ + 1]
     ELSE stack[i]]

\* Faulty variant: the nested entries are spliced in front (unshift for push).
ModuleCaseReturnUnshift ==
  /\ AtReturn
  /\ Len(stack) > 1
  /\ stack' = CallerResumes(Top.sourceMeta \o stack[Len(stack) - 1].sourceMeta)
  /\ UNCHANGED <<sourceNode, structure, walkErr, walkPc>>
  /\ OtherIdle

\* Lines 57 and 50: the nested call returns and sourceMeta.push(...result).
ModuleCaseReturn ==
  /\ AtReturn
  /\ Len(stack) > 1
  /\ stack' = CallerResumes(stack[Len(stack) - 1].sourceMeta \o Top.sourceMeta)
  /\ UNCHANGED <<sourceNode, structure, walkErr, walkPc>>
  /\ OtherIdle

\* Lines 57 and 28: the outermost call returns into this.structure.
ConstructReturn ==
  /\ AtReturn
  /\ Len(stack) = 1
  /\ structure' = <<Top.sourceMeta>>
  /\ stack' = <<>>
  /\ walkPc' = "done"
  /\ UNCHANGED <<sourceNode, walkErr>>
  /\ OtherIdle

NextWalk ==
  \/ Construct
  \/ KindCheckPass
  \/ KindCheckThrow
  \/ InterfaceCase
  \/ ClassCase
  \/ FunctionCase
  \/ FunctionCaseThrow
  \/ ModuleCaseCall
  \/ DefaultCase
  \/ ModuleCaseReturn
  \/ ConstructReturn

SpecWalk == InitWalk /\ [][NextWalk]_vars

\* The entries of a statement list as the traversal meets them: a declaration
\* gives one entry, a container gives the entries of its body in its place,
\* anything else gives none.
RECURSIVE EncounterOrder(_)
EncounterOrder(stmts) ==
  IF stmts = <<>> THEN <<>>
  ELSE
    LET s == Head(stmts)
        here ==
          CASE s.kind = "InterfaceDeclaration" -> <<<<"Interface", extractInterface(s)>>>>
            [] s.kind = "ClassDeclaration"     -> <<<<"Class", extractClass(s)>>>>
            [] s.kind = "FunctionDeclaration"  -> <<<<"Function", extractFunction(s).value>>>>
            [] s.kind = "ModuleDeclaration" /\ Has(s, "body")
                 /\ Has(s.body, "statements")  -> EncounterOrder(s.body.statements)
            [] OTHER                           -> <<>>
    IN  here \o EncounterOrder(Tail(stmts))

\* C2: extractStructure returns the entries in the depth-first, top-to-bottom
\* order in which interface, class and function declarations are met: a
\* container's entries sit contiguously at the container's position, the
\* container itself and every other statement kind add nothing, and no entry
\* is duplicated, dropped or reordered.
C2_EncounterOrder ==
  walkPc = "done" => structure = <<EncounterOrder(sourceNode.statements)>>

\* A finished walk of: declaration, container holding a declaration,
\* declaration.
C2_Witness ==
  /\ walkPc = "done"
  /\ Len(sourceNode.statements) = 3
  /\ sourceNode.statements[1].kind = "InterfaceDeclaration"
  /\ sourceNode.statements[2].kind = "ModuleDeclaration"
  /\ Len(sourceNode.statements[2].body.statements) = 1
  /\ sourceNode.statements[2].body.statements[1].kind = "ClassDeclaration"
  /\ sourceNode.statements[3].kind = "FunctionDeclaration"
  /\ Len(structure[1]) = 3

\* n is neither a SourceFile nor a ModuleBlock.
NotSourceNorBlock(n) ==
  ~("kind" \in DOMAIN n /\ n.kind \in {"SourceFile", "ModuleBlock"})

\* Some namespace/module statement, at any depth, has a body that is no
\* ModuleBlock.
RECURSIVE HasBadModule(_)
HasBadModule(stmts) ==
  \E i \in 1..Len(stmts) :
    /\ stmts[i].kind = "ModuleDeclaration"
    /\ \/ ~("body" \in DOMAIN stmts[i])
       \/ stmts[i].body.kind # "ModuleBlock"
       \/ HasBadModule(stmts[i].body.statements)

MaxEntries == 2

\* The grave accent that the renderer puts around a field name.  A TLA+
\* string literal cannot hold U+0060, so the apostrophe is written for it.
Backtick == "'"

\* `${value}`: a string is itself, undefined is "undefined", and an array is
\* its elements joined by commas with an undefined element left empty.
TemplateString(v) ==
  IF Has(v, "str") THEN v.str
  ELSE IF Has(v, "undef") THEN "undefined"
  ELSE JoinStrings([i \in 1..Len(v.arr) |->
                      IF Has(v.arr[i], "str") THEN v.arr[i].str ELSE ""], ",")

\* paramMeta.types.map(type => `**${type}**`).join(' | ')
BoldTypes(types) ==
  JoinStrings([i \in 1..Len(types) |-> "**" \o TemplateString(types[i]) \o "**"],
              " | ")

\* Faulty variant: the optional marker is written for every field.
RECURSIVE addParamsToMarkdownAllOptional(_)
addParamsToMarkdownAllOptional(params) ==
  IF params = <<>> THEN ""
  ELSE
    LET paramName == Head(params)[1]
        paramMeta == Head(params)[2]
    IN  ("- **" \o Backtick \o paramName \o Backtick \o "**: "
           \o BoldTypes(paramMeta.types))
        \o " (optional)"
        \o (IF Len(paramMeta.comments) > 0
            THEN "\n  " \o JoinStrings(paramMeta.comments, " ") ELSE "")
        \o "\n"
        \o addParamsToMarkdownAllOptional(Tail(params))

RECURSIVE addParamsToMarkdown(_)
addParamsToMarkdown(params) ==
  IF params = <<>> THEN ""
  ELSE
    LET paramName == Head(params)[1]
        paramMeta == Head(params)[2]
    IN  ("- **" \o Backtick \o paramName \o Backtick \o "**: "
           \o BoldTypes(paramMeta.types))
        \o (IF paramMeta.optional THEN " (optional)" ELSE "")
        \o (IF Len(paramMeta.comments) > 0
            THEN "\n  " \o JoinStrings(paramMeta.comments, " ") ELSE "")
        \o "\n"
        \o addParamsToMarkdown(Tail(params))

\* Lines 214-236: what one iteration of the loop appends after the separator.
EntryMarkdown(kind, meta) ==
  ("## " \o kind \o ": " \o meta.name \o "\n")
  \o (IF Has(meta, "constructorMeta")
      THEN (IF Has(meta.constructorMeta, "comments")
            THEN "\n" \o JoinStrings(meta.constructorMeta.comments, "\n\n") \o "\n"
            ELSE "")
           \o "\n" \o addParamsToMarkdown(meta.constructorMeta.params)
      ELSE "")
  \o (IF Has(meta, "params")
      THEN "\n" \o "### Parameters\n"
           \o (IF Len(meta.params) > 0
               THEN "\n" \o addParamsToMarkdown(meta.params) ELSE "")
      ELSE "")
  \o (IF Has(meta, "props") /\ Len(meta.props) > 0
      THEN "\n" \o "### Properties\n" \o "\n" \o addParamsToMarkdown(meta.props)
      ELSE "")

\* extractNodeMeta's result for a field whose annotation is spelled ann.
FieldMeta(nm, opt, ann, cmts) ==
  <<nm, [optional |-> opt,
         types    |-> extractNodeTypes(DeclNode("PropertySignature", ann)).value,
         comments |-> cmts]>>

ExampleEntry ==
  <<"Interface",
    [name  |-> "Example",
     props |-> << FieldMeta("id", FALSE, <<<<"string">>>>, <<"Unique identifier.">>),
                  FieldMeta("count", TRUE, <<<<"number">>>>, <<"Occurrence count.">>) >>]>>

Entries ==
  { ExampleEntry,
    <<"Interface", [name |-> "Empty", props |-> <<>>]>>,
    <<"Interface",
      [name  |-> "Shape",
       props |-> << FieldMeta("kind", FALSE, <<<<"string">>, <<"number">>>>, <<>>),
                    FieldMeta("owner", TRUE, <<<<"ns", "Foo">>>>,
                              <<"The owner.", "May be absent.">>) >>]>>,
    <<"Class", [name |-> "Bare", props |-> <<>>]>>,
    <<"Class",
      [name            |-> "Point",
       constructorMeta |-> [params   |-> <<FieldMeta("x", FALSE, <<<<"number">>>>, <<>>)>>,
                            comments |-> <<>>],
       props           |-> <<FieldMeta("tag", TRUE, <<<<"void">>>>, <<>>)>>]>>,
    <<"Class",
      [name            |-> "Doc",
       constructorMeta |-> [params   |-> <<FieldMeta("y", TRUE, <<<<"string">>>>, <<"Why.">>)>>,
                            comments |-> <<"Creates it.", "Second paragraph.">>],
       props           |-> <<>>]>>,
    <<"Function",
      [name |-> "run", params |-> <<>>,
       returnTypes |-> <<Arr(<<Str("string")>>)>>]>>,
    <<"Function",
      [name |-> "load",
       params |-> <<FieldMeta("path", FALSE, <<<<"string">>>>, <<"Where from.">>)>>,
       returnTypes |-> <<Arr(<<Undefined>>)>>]>> }

InitMarkdown ==
  /\ mdStructure \in SeqsOf(Entries, 0, MaxEntries)
  /\ mdIdx = 0
  /\ markdown = ""
  /\ mdPc = "loop"
  /\ NameIdle /\ TypesIdle /\ CommentsIdle /\ WalkIdle /\ PluginIdle

\* Lines 210-237: one iteration of the loop over this.structure.
RenderEntry ==
  /\ mdPc = "loop"
  /\ mdIdx < Len(mdStructure)
  /\ LET kind == mdStructure[mdIdx + 1][1]
         meta == mdStructure[mdIdx + 1][2]
     IN  markdown' = (IF Len(markdown) > 0 THEN markdown \o "\n" ELSE markdown)
                       \o EntryMarkdown(kind, meta)
  /\ mdIdx' = mdIdx + 1
  /\ UNCHANGED <<mdStructure, mdPc>>
  /\ UNCHANGED <<nameVars, typesVars, commentVars, walkVars, pluginVars>>

\* Line 238.
ToMarkdownReturn ==
  /\ mdPc = "loop"
  /\ mdIdx = Len(mdStructure)
  /\ mdPc' = "done"
  /\ UNCHANGED <<mdStructure, mdIdx, markdown>>
  /\ UNCHANGED <<nameVars, typesVars, commentVars, walkVars, pluginVars>>

NextMarkdown ==
  \/ RenderEntry
  \/ ToMarkdownReturn

SpecMarkdown == InitMarkdown /\ [][NextMarkdown]_vars

\* The name an alternative shows: the alternative's one name, or the bare name
\* of a union member.
AlternativeName(alt) ==
  IF "str" \in DOMAIN alt THEN alt.str ELSE alt.arr[1].str

Named(alt) ==
  \/ "str" \in DOMAIN alt
  \/ "arr" \in DOMAIN alt /\ Len(alt.arr) = 1 /\ "str" \in DOMAIN alt.arr[1]

\* One field as the bullet grammar of 4.6 writes it.
Bullet(field) ==
  LET meta == field[2]
  IN  "- **" \o Backtick \o field[1] \o Backtick \o "**: "
      \o JoinStrings([i \in 1..Len(meta.types) |->
                        "**" \o AlternativeName(meta.types[i]) \o "**"], " | ")
      \o (IF meta.optional THEN " (optional)" ELSE "")
      \o (IF meta.comments # <<>>
          THEN "\n  " \o JoinStrings(meta.comments, " ") ELSE "")
      \o "\n"

RECURSIVE Bullets(_)
Bullets(fields) ==
  IF fields = <<>> THEN "" ELSE Bullet(Head(fields)) \o Bullets(Tail(fields))

\* C3: the structure of the one interface Example renders as the eight lines
\* of the example; in general a field is one bullet with its alternatives
\* bolded and joined by " | ", then " (optional)" iff it is optional, then a
\* two-space-indented line of the space-joined comments iff it has comments.
C3_ExampleAndBullets ==
  /\ [](( mdPc = "done" /\ mdStructure = <<ExampleEntry>> ) =>
          markdown =
            "## Interface: Example\n"
            \o "\n"
            \o "### Properties\n"
            \o "\n"
            \o "- **" \o Backtick \o "id" \o Backtick \o "**: **string**\n"
            \o "  Unique identifier.\n"
            \o "- **" \o Backtick \o "count" \o Backtick \o "**: **number** (optional)\n"
            \o "  Occurrence count.\n")
  /\ [][ ( /\ mdPc = "loop" /\ mdIdx < Len(mdStructure)
           /\ mdStructure[mdIdx + 1][1] = "Interface"
           /\ mdStructure[mdIdx + 1][2].props # <<>>
           /\ \A i \in 1..Len(mdStructure[mdIdx + 1][2].props) :
                \A j \in 1..Len(mdStructure[mdIdx + 1][2].props[i][2].types) :
                  Named(mdStructure[mdIdx + 1][2].props[i][2].types[j]) )
         => markdown' =
              (IF markdown = "" THEN "" ELSE markdown \o "\n")
              \o "## Interface: " \o mdStructure[mdIdx + 1][2].name \o "\n"
              \o "\n### Properties\n\n"
              \o Bullets(mdStructure[mdIdx + 1][2].props)
      ]_vars

\* The structure of the example has been rendered.
C3_Witness ==
  /\ mdPc = "done"
  /\ mdStructure = <<ExampleEntry>>
  /\ Len(markdown) > 0

\* An entry as 4.6 lays it out: every part only when it has content, except
\* the Parameters heading, which comes with the params field.
Layout(kind, meta) ==
  ("## " \o kind \o ": " \o meta.name \o "\n")
  \o (IF "constructorMeta" \in DOMAIN meta
      THEN (IF meta.constructorMeta.comments # <<>>
            THEN "\n" \o JoinStrings(meta.constructorMeta.comments, "\n\n") \o "\n"
            ELSE "")
           \o "\n" \o addParamsToMarkdown(meta.constructorMeta.params)
      ELSE "")
  \o (IF "params" \in DOMAIN meta
      THEN "\n### Parameters\n"
           \o (IF meta.params # <<>>
               THEN "\n" \o addParamsToMarkdown(meta.params) ELSE "")
      ELSE "")
  \o (IF "props" \in DOMAIN meta /\ meta.props # <<>>
      THEN "\n### Properties\n\n" \o addParamsToMarkdown(meta.props)
      ELSE "")

\* C9: toMarkdown emits a part only when it has content, except the
\* Parameters heading: entries are separated by a single blank line,
\* Properties comes iff props is non-empty, Parameters iff the entry has
\* params, and a constructor's comment block only if it has comments, so an
\* empty comments sequence adds nothing between heading and parameter list.
C9_PartsOnlyWithContent ==
  mdPc = "done" =>
    markdown = JoinStrings([i \in 1..Len(mdStructure) |->
                              Layout(mdStructure[i][1], mdStructure[i][2])], "\n")

(***************************************************************************)
(* The vite plugin: VitePluginTypeJuice(...).transform(code, id).          *)
(*                                                                         *)
(* Strings are sequences of characters here: the code splits, matches and  *)
(* slices them.  code is the document vite hands over and mdSource is what *)
(* the file named id holds, the same text.  The module never imports fs,   *)
(* so the name resolves only where the host defines a global fs            *)
(* (hasGlobalFs); elsewhere reading it is a ReferenceError.                *)
(***************************************************************************)
MaxDocLines == 2

DirectivePrefix ==
  <<"<", "<", "<", " ", "t", "y", "p", "e", "j", "u", "i", "c", "e", ":">>

\* s.endsWith(suffix)
EndsWith(s, suffix) ==
  /\ Len(s) >= Len(suffix)
  /\ SubSeq(s, Len(s) - Len(suffix) + 1, Len(s)) = suffix

\* s.slice(from)
SliceFrom(s, from) == SubSeq(s, from + 1, Len(s))

\* s.split(/\r?\n/): the lines of s, at least one.
RECURSIVE SplitLines(_, _)
SplitLines(s, line) ==
  IF s = <<>> THEN <<line>>
  ELSE IF s[1] = "\n" THEN <<line>> \o SplitLines(Tail(s), <<>>)
  ELSE IF s[1] = "\r" /\ Len(s) >= 2 /\ s[2] = "\n"
  THEN <<line>> \o SplitLines(Tail(Tail(s)), <<>>)
  ELSE SplitLines(Tail(s), Append(line, s[1]))

\* line.match(/^<<< typejuice:(.+?)$/): <<>> when there is no match, else
\* <<[index, group 1]>>; the pattern is anchored, so index is 0.
IncludeMatch(line) ==
  IF /\ Len(line) > Len(DirectivePrefix)
     /\ SubSeq(line, 1, Len(DirectivePrefix)) = DirectivePrefix
  THEN <<[index |-> 0, group |-> SliceFrom(line, Len(DirectivePrefix))]>>
  ELSE <<>>

\* new TypeJuice(join(typeRoot, path)).toMarkdown(): the rendering of the
\* declaration file at that path, which is a heading naming it here.
RenderedFor(path) == <<"#", "#", " ">> \o path \o <<"\n">>

RECURSIVE JoinLines(_)
JoinLines(ls) ==
  IF Len(ls) = 1 THEN ls[1] ELSE ls[1] \o <<"\n">> \o JoinLines(Tail(ls))

DocLines ==
  { <<"h", "i">>,
    <<>>,
    DirectivePrefix \o <<"T">>,
    DirectivePrefix \o <<"a", "/", "U">> }

Ids == { <<"d", ".", "m", "d">>, <<"d", ".", "t", "s">>, <<"m", "d">> }

InitPlugin ==
  /\ id \in Ids
  /\ mdSource \in {JoinLines(ls) : ls \in SeqsOf(DocLines, 1, MaxDocLines)}
  /\ code = mdSource
  /\ hasGlobalFs \in BOOLEAN
  /\ plIdx = 0
  /\ plResult = <<>>
  /\ plPc = "call"
  /\ NameIdle /\ TypesIdle /\ CommentsIdle /\ WalkIdle /\ MarkdownIdle

PluginFrame ==
  UNCHANGED <<nameVars, typesVars, commentVars, walkVars, mdVars>>

\* Lines 10-12.
TransformOther ==
  /\ plPc = "call"
  /\ ~EndsWith(id, <<".", "m", "d">>)
  /\ plPc' = "returnedNull"
  /\ UNCHANGED <<id, mdSource, hasGlobalFs, code, plIdx, plResult>>
  /\ PluginFrame

\* Line 13 where fs is not defined.
TransformNoFs ==
  /\ plPc = "call"
  /\ EndsWith(id, <<".", "m", "d">>)
  /\ ~hasGlobalFs
  /\ plPc' = "ReferenceError"
  /\ UNCHANGED <<id, mdSource, hasGlobalFs, code, plIdx, plResult>>
  /\ PluginFrame

\* Lines 13-14: the file is read and split.
TransformRead ==
  /\ plPc = "call"
  /\ EndsWith(id, <<".", "m", "d">>)
  /\ hasGlobalFs
  /\ plPc' = "loop"
  /\ UNCHANGED <<id, mdSource, hasGlobalFs, code, plIdx, plResult>>
  /\ PluginFrame

PluginLine == SplitLines(mdSource, <<>>)[plIdx + 1]

\* Lines 15-26: a line that holds the directive.
IncludeLine ==
  /\ plPc = "loop"
  /\ plIdx < Len(SplitLines(mdSource, <<>>))
  /\ IncludeMatch(PluginLine) # <<>>
  /\ LET includeMatch == IncludeMatch(PluginLine)[1]
     IN  code' = SubSeq(code, 1, includeMatch.index)
                   \o RenderedFor(includeMatch.group)
                   \o SliceFrom(code, includeMatch.index + Len(includeMatch.group))
  /\ plIdx' = plIdx + 1
  /\ UNCHANGED <<id, mdSource, hasGlobalFs, plResult, plPc>>
  /\ PluginFrame

\* Lines 15-16: any other line.
PlainLine ==
  /\ plPc = "loop"
  /\ plIdx < Len(SplitLines(mdSource, <<>>))
  /\ IncludeMatch(PluginLine) = <<>>
  /\ plIdx' = plIdx + 1
  /\ UNCHANGED <<id, mdSource, hasGlobalFs, code, plResult, plPc>>
  /\ PluginFrame

\* Line 28.
TransformReturn ==
  /\ plPc = "loop"
  /\ plIdx = Len(SplitLines(mdSource, <<>>))
  /\ plResult' = code
  /\ plPc' = "returned"
  /\ UNCHANGED <<id, mdSource, hasGlobalFs, code, plIdx>>
  /\ PluginFrame

NextPlugin ==
  \/ TransformOther
  \/ TransformNoFs
  \/ TransformRead
  \/ IncludeLine
  \/ PlainLine
  \/ TransformReturn

SpecPlugin == InitPlugin /\ [][NextPlugin]_vars

\* The document with every directive line replaced by the rendering it asks
\* for and every other line as it was.
Included(doc) ==
  LET ls == SplitLines(doc, <<>>)
  IN  JoinLines([i \in 1..Len(ls) |->
                   IF IncludeMatch(ls[i]) # <<>>
                   THEN RenderedFor(IncludeMatch(ls[i])[1].group)
                   ELSE ls[i]])

\* C10: for an id ending in .md, transform returns the document with every
\* line `<<< typejuice:<path>` replaced in place by the rendering of the file
\* at <path> and every other line unchanged and in its position; for any
\* other id it returns null and changes nothing.
C10_IncludeInPlace ==
  /\ plPc \in {"returned", "ReferenceError"} =>
       (plPc = "returned" /\ plResult = Included(mdSource))
  /\ plPc = "returnedNull" => code = mdSource
  /\ ~EndsWith(id, <<".", "m", "d">>) => plPc \in {"call", "returnedNull"}

====
